---------------------------- MODULE Spec2Model ----------------------------
(***************************************************************************)
(* PolicyRadar backend: the in-memory document store and its loader, the  *)
(* serving handlers of main.py and main_simple_backup.py, the merge-mode   *)
(* ingestion of main_simple_backup.py (also with overlapping requests),    *)
(* and the adapters and the replace-mode pipeline of ingestion_service.py. *)
(*                                                                         *)
(* Representation of Python values                                         *)
(*   str     a sequence of one-character strings, "" is << >>              *)
(*   None    the marker Null                                               *)
(*   a key that a dict does not hold: the marker Absent                    *)
(*   int     an integer; an Optional[int] argument is [isNone, value]      *)
(* Null and Absent are sequences too (of one non-character element), so    *)
(* every field value can be compared with every other.                     *)
(*                                                                         *)
(* Timestamps are modelled at reduced width: a date is two decimal digits  *)
(* counting days ("07"), optionally followed by "Z" or a "+hh:mm" offset.  *)
(* A date denotes midnight of its day, as a date-only ISO string does.     *)
(***************************************************************************)
EXTENDS Integers, Sequences, FiniteSets, TLC

VARIABLES
    ALL_DOCS,         \* main.py: the global document list
    now,              \* the clock: [day |-> Nat, later |-> BOOLEAN]
    request,          \* the request a serving handler last received
    response,         \* what that handler returned (or that it raised)
    pickle_file,      \* VECTORS_DIR/documents.pkl
    jsonl_file,       \* DATA_DIR/items.jsonl
    pc,               \* "start" before load_all_documents ran, then "serving"
    documents_store,  \* main_simple_backup.py: the global document list
    results,          \* the report ingest_documents returned to ingest_data
    threads           \* the frames of the handlers that run in worker threads

vars == <<ALL_DOCS, now, request, response, pickle_file, jsonl_file, pc,
          documents_store, results, threads>>

-----------------------------------------------------------------------------
(* Bounds of the model *)

\* documents in a snapshot the serving specifications start from
MaxDocs == 2

\* lines in items.jsonl
MaxLines == 2

\* documents_store stops growing at this length
MaxStore == 4

-----------------------------------------------------------------------------
(* Python values *)

Null == <<"<None>">>
Absent == <<"<absent>">>

\* bool(v) of a str or None
Truthy(v) == v # Null /\ v # << >>

\* An Optional[int] argument: None, or an int
NoneInt == [isNone |-> TRUE, value |-> 0]

SomeInt(n) == [isNone |-> FALSE, value |-> n]

\* bool(x) of an Optional[int]
TruthyInt(x) == ~x.isNone /\ x.value # 0

\* d.get(k): None when the key is absent
Get(d, k) == IF d[k] = Absent THEN Null ELSE d[k]

\* d.get(k, default): the default only when the key is absent
GetDefault(d, k, default) == IF d[k] = Absent THEN default ELSE d[k]

\* The characters of the model, in code-point order
Alphabet == <<" ", "+", "-", "0", "1", "2", "3", "4", "5", "6", "7", "8", "9",
              ":", "T", "Z", "a", "x">>

Ord(c) == CHOOSE i \in 1..Len(Alphabet) : Alphabet[i] = c

Digits == {"0", "1", "2", "3", "4", "5", "6", "7", "8", "9"}

DigitValue(c) == Ord(c) - Ord("0")

UpperLetters == <<"A", "B", "C", "D", "E", "F", "G", "H", "I", "J", "K", "L", "M",
                 "N", "O", "P", "Q", "R", "S", "T", "U", "V", "W", "X", "Y", "Z">>

LowerLetters == <<"a", "b", "c", "d", "e", "f", "g", "h", "i", "j", "k", "l", "m",
                 "n", "o", "p", "q", "r", "s", "t", "u", "v", "w", "x", "y", "z">>

\* str.lower(), character by character
LowerChar(c) ==
    IF \E i \in 1..Len(UpperLetters) : UpperLetters[i] = c
    THEN LowerLetters[CHOOSE i \in 1..Len(UpperLetters) : UpperLetters[i] = c]
    ELSE c

Lower(s) == [i \in 1..Len(s) |-> LowerChar(s[i])]

\* a in b, for two str
IsSubstring(a, b) ==
    \E i \in 0..(Len(b) - Len(a)) : SubSeq(b, i + 1, i + Len(a)) = a

\* a < b, for two str: lexicographic on code points
StrLess(a, b) ==
    \E i \in 1..Len(b) :
        /\ \A j \in 1..(i - 1) : j <= Len(a) /\ a[j] = b[j]
        /\ \/ i = Len(a) + 1
           \/ i <= Len(a) /\ Ord(a[i]) < Ord(b[i])

RECURSIVE Replace(_, _, _)
\* s.replace(old, new) for a one-character old
Replace(s, old, new) ==
    IF s = << >> THEN << >>
    ELSE (IF Head(s) = old THEN new ELSE <<Head(s)>>) \o Replace(Tail(s), old, new)

RECURSIVE SelectDocs(_, _)
\* [d for d in docs if keep[position of d]]
SelectDocs(docs, keep) ==
    IF docs = << >> THEN << >>
    ELSE (IF keep[1] THEN <<Head(docs)>> ELSE << >>)
         \o SelectDocs(Tail(docs), [i \in 1..(Len(docs) - 1) |-> keep[i + 1]])

-----------------------------------------------------------------------------
(* Timestamps *)

UtcOffset == <<"+", "0", "0", ":", "0", "0">>

IsOffset(s) ==
    /\ Len(s) = 6
    /\ s[1] \in {"+", "-"}
    /\ s[2] \in Digits /\ s[3] \in Digits
    /\ s[4] = ":"
    /\ s[5] \in Digits /\ s[6] \in Digits

\* datetime.fromisoformat(s): does s parse?
IsIsoFormat(s) ==
    /\ Len(s) \in {2, 8}
    /\ s[1] \in Digits /\ s[2] \in Digits
    /\ Len(s) = 8 => IsOffset(SubSeq(s, 3, 8))

\* datetime.fromisoformat(s).replace(tzinfo=None): the day, offset dropped
IsoDay(s) == DigitValue(s[1]) * 10 + DigitValue(s[2])

\* fromisoformat(published.replace('Z', '+00:00')) raises ValueError
ParseRaises(published) == ~IsIsoFormat(Replace(published, "Z", UtcOffset))

ParseDay(published) == IsoDay(Replace(published, "Z", UtcOffset))

\* parsed >= datetime.utcnow() - timedelta(days=days), parsed at midnight
NotBeforeCutoff(day, clock, days) ==
    \/ day > clock.day - days
    \/ day = clock.day - days /\ ~clock.later

-----------------------------------------------------------------------------
(* Documents: dicts with the keys the handlers read.  A document without   *)
(* a 'topics' key has topics = << >>: every handler reads d.get('topics',  *)
(* []), so the two are read alike.                                         *)

Doc(id, title, summary, source, doc_type, published, topics) ==
    [id |-> id, title |-> title, summary |-> summary, source |-> source,
     doc_type |-> doc_type, published |-> published, topics |-> topics]

Str_all == <<"a", "l", "l">>

-----------------------------------------------------------------------------
(* The request cycle of the sequential specifications: one client, one     *)
(* request at a time.  The handler runs from its request to its response   *)
(* as one step; the server then sends the response and is idle again.      *)
(* Requests that overlap are the subject of SpecConcurrent.                *)

NoRequest == [op |-> "none"]

NoResponse == [status |-> 0]

\* No handler is running in a worker thread
NoThreads == << >>

Reply ==
    /\ request # NoRequest
    /\ request' = NoRequest
    /\ response' = NoResponse
    /\ results' = NoResponse
    /\ UNCHANGED <<ALL_DOCS, now, pickle_file, jsonl_file, pc, documents_store,
                   threads>>

-----------------------------------------------------------------------------
(* get_documents *)

\* if topic and topic != 'all': keep d when topic.lower() is in some t.lower()
ApplyTopic(docs, topic) ==
    IF Truthy(topic) /\ topic # Str_all
    THEN SelectDocs(docs, [i \in 1..Len(docs) |->
             \E j \in 1..Len(docs[i].topics) :
                 IsSubstring(Lower(topic), Lower(docs[i].topics[j]))])
    ELSE docs

ApplySource_ignoring_docs(docs, source) ==
    IF Truthy(source) /\ source # Str_all
    THEN SelectDocs(ALL_DOCS, [i \in 1..Len(ALL_DOCS) |-> Get(ALL_DOCS[i], "source") = source])
    ELSE docs

\* if source and source != 'all': keep d when d.get('source') == source
ApplySource(docs, source) ==
    IF Truthy(source) /\ source # Str_all
    THEN SelectDocs(docs, [i \in 1..Len(docs) |-> Get(docs[i], "source") = source])
    ELSE docs

\* if doc_type and doc_type != 'all': keep d when d.get('doc_type') == doc_type
ApplyDocType(docs, doc_type) ==
    IF Truthy(doc_type) /\ doc_type # Str_all
    THEN SelectDocs(docs, [i \in 1..Len(docs) |-> Get(docs[i], "doc_type") = doc_type])
    ELSE docs

\* search_lower in d.get('title', '').lower() or
\* search_lower in d.get('summary', '').lower()
SearchHit(d, search) ==
    \/ IsSubstring(Lower(search), Lower(GetDefault(d, "title", << >>)))
    \/ IsSubstring(Lower(search), Lower(GetDefault(d, "summary", << >>)))

\* None has no lower(): AttributeError.  The summary is read only when the
\* title does not hold the search text.
SearchRaises(docs, search) ==
    /\ Truthy(search)
    /\ \E i \in 1..Len(docs) :
          \/ docs[i].title = Null
          \/ /\ ~IsSubstring(Lower(search), Lower(GetDefault(docs[i], "title", << >>)))
             /\ docs[i].summary = Null

ApplySearch(docs, search) ==
    IF Truthy(search)
    THEN SelectDocs(docs, [i \in 1..Len(docs) |-> SearchHit(docs[i], search)])
    ELSE docs

\* The date filter parses every truthy published; one that does not parse
\* raises ValueError out of the handler.
DaysRaises(docs, clock, days) ==
    /\ TruthyInt(days)
    /\ \E i \in 1..Len(docs) :
          /\ Truthy(Get(docs[i], "published"))
          /\ ParseRaises(docs[i].published)

\* if days: keep d when d.get('published') and parsed >= cutoff
ApplyDays(docs, clock, days) ==
    IF TruthyInt(days)
    THEN SelectDocs(docs, [i \in 1..Len(docs) |->
             /\ Truthy(Get(docs[i], "published"))
             /\ NotBeforeCutoff(ParseDay(docs[i].published), clock, days.value)])
    ELSE docs

\* The sort key: x.get('published', '')
SortKey(d) == GetDefault(d, "published", << >>)

\* list.sort compares every key with another one as soon as there are two;
\* None < str, str < None and None < None all raise TypeError.
SortRaises(docs) ==
    /\ Len(docs) >= 2
    /\ \E i \in 1..Len(docs) : SortKey(docs[i]) = Null

\* d goes before the first document whose key is smaller: behind its equals
InsertDesc(sorted, d) ==
    LET smaller == {i \in 1..Len(sorted) : StrLess(SortKey(sorted[i]), SortKey(d))}
        at == IF smaller = {} THEN Len(sorted) + 1
              ELSE CHOOSE i \in smaller : \A j \in smaller : i <= j
    IN  SubSeq(sorted, 1, at - 1) \o <<d>> \o SubSeq(sorted, at, Len(sorted))

RECURSIVE SortedPrefix(_, _)
SortedPrefix(docs, n) ==
    IF n = 0 THEN << >> ELSE InsertDesc(SortedPrefix(docs, n - 1), docs[n])

\* docs.sort(key=..., reverse=True): descending and stable
SortDocs(docs) == SortedPrefix(docs, Len(docs))

\* if limit: docs = docs[:limit]
ApplyLimit(docs, limit) ==
    IF TruthyInt(limit)
    THEN IF limit.value > 0
         THEN SubSeq(docs, 1, IF limit.value < Len(docs) THEN limit.value ELSE Len(docs))
         ELSE SubSeq(docs, 1, Len(docs) + limit.value)
    ELSE docs

\* An exception leaves the handler: the framework answers 500
Raised(exception) ==
    [status |-> 500, exception |-> exception, documents |-> << >>, total |-> 0]

get_documents(store, clock, topic, source, doc_type, days, search, limit) ==
    LET byTopic == ApplyTopic(store, topic)
        bySource == ApplySource(byTopic, source)
        byType == ApplyDocType(bySource, doc_type)
        bySearch == ApplySearch(byType, search)
        byDays == ApplyDays(bySearch, clock, days)
        docs == ApplyLimit(SortDocs(byDays), limit)
    IN  IF SearchRaises(byType, search) THEN Raised("AttributeError")
        ELSE IF DaysRaises(bySearch, clock, days) THEN Raised("ValueError")
        ELSE IF SortRaises(byDays) THEN Raised("TypeError")
        ELSE [status |-> 200, exception |-> "", documents |-> docs,
              total |-> Len(docs)]

\* The query string of one GET /api/documents
Criteria(topic, source, doc_type, days, search, limit) ==
    [op |-> "get_documents", topic |-> topic, source |-> source,
     doc_type |-> doc_type, days |-> days, search |-> search, limit |-> limit]

\* GET /api/documents: reads ALL_DOCS, writes nothing but the response
GetDocuments(topic, source, doc_type, days, search, limit) ==
    /\ pc = "serving" /\ request = NoRequest
    /\ request' = Criteria(topic, source, doc_type, days, search, limit)
    /\ response' = get_documents(ALL_DOCS, now, topic, source, doc_type, days,
                                 search, limit)
    /\ UNCHANGED <<ALL_DOCS, now, pickle_file, jsonl_file, pc,
                   documents_store, results, threads>>

-----------------------------------------------------------------------------
(* get_stats *)

Str_Unknown == <<"U", "n", "k", "n", "o", "w", "n">>

Str_procedure == <<"p", "r", "o", "c", "e", "d", "u", "r", "e">>

\* by[name] = by.get(name, 0) + 1, on a dict kept in insertion order
CountInto(by, name) ==
    IF \E i \in 1..Len(by) : by[i].name = name
    THEN [i \in 1..Len(by) |->
             IF by[i].name = name
             THEN [name |-> name, count |-> by[i].count + 1]
             ELSE by[i]]
    ELSE Append(by, [name |-> name, count |-> 1])

RECURSIVE GroupBy(_, _, _)
\* the loop over the first n documents, counting d.get(key, 'Unknown')
GroupBy(docs, key, n) ==
    IF n = 0 THEN << >>
    ELSE CountInto(GroupBy(docs, key, n - 1), GetDefault(docs[n], key, Str_Unknown))

\* published is truthy, parses (a ValueError is swallowed) and is >= week_ago
InThisWeek(d, clock) ==
    /\ Truthy(Get(d, "published"))
    /\ ~ParseRaises(d.published)
    /\ NotBeforeCutoff(ParseDay(d.published), clock, 7)

get_stats(store, clock) ==
    [status |-> 200,
     total_documents |-> Len(store),
     active_procedures |->
         Cardinality({i \in 1..Len(store) :
                          GetDefault(store[i], "doc_type", Str_Unknown) = Str_procedure}),
     this_week |-> Cardinality({i \in 1..Len(store) : InThisWeek(store[i], clock)}),
     sources |-> GroupBy(store, "source", Len(store)),
     document_types |-> GroupBy(store, "doc_type", Len(store))]

\* GET /api/stats
GetStats ==
    /\ pc = "serving" /\ request = NoRequest
    /\ request' = [op |-> "get_stats"]
    /\ response' = get_stats(ALL_DOCS, now)
    /\ UNCHANGED <<ALL_DOCS, now, pickle_file, jsonl_file, pc,
                   documents_store, results, threads>>

-----------------------------------------------------------------------------
(* load_all_documents *)

Str_EUR_Lex == <<"E", "U", "R", "-", "L", "e", "x">>

Str_EURACTIV == <<"E", "U", "R", "A", "C", "T", "I", "V">>

Str_EP_Open_Data == <<"E", "P", " ", "O", "p", "e", "n", " ", "D", "a", "t", "a">>

\* create_sample_documents (main.py).  Titles and summaries are cut to
\* their keyword, the dates to the reduced width, in the order of the
\* source's dates (2020-07-08 < 2024-01-15 < 2024-02-20).
create_sample_documents ==
    << Doc(<<"s", "a", "m", "p", "l", "e", "-", "1">>, <<"H", "y", "d", "r", "o", "g", "e", "n">>, <<"h", "y", "d", "r", "o", "g", "e", "n">>, Str_EUR_Lex, <<"s", "t", "r", "a", "t", "e", "g", "y">>, <<"0", "1">>,
           <<<<"h", "y", "d", "r", "o", "g", "e", "n">>, <<"c", "l", "i", "m", "a", "t", "e">>, <<"e", "n", "e", "r", "g", "y">>>>),
       Doc(<<"s", "a", "m", "p", "l", "e", "-", "2">>, <<"T", "r", "a", "n", "s", "p", "o", "r", "t">>, <<"t", "r", "a", "n", "s", "p", "o", "r", "t">>, Str_EURACTIV, <<"n", "e", "w", "s">>, <<"0", "4">>,
           <<<<"t", "r", "a", "n", "s", "p", "o", "r", "t">>, <<"c", "l", "e", "a", "n", " ", "e", "n", "e", "r", "g", "y">>>>),
       Doc(<<"s", "a", "m", "p", "l", "e", "-", "3">>, <<"P", "a", "r", "l", "i", "a", "m", "e", "n", "t">>, <<"t", "r", "a", "n", "s", "p", "o", "r", "t">>, Str_EP_Open_Data, <<"r", "e", "s", "o", "l", "u", "t", "i", "o", "n">>, <<"0", "5">>,
           <<<<"t", "r", "a", "n", "s", "p", "o", "r", "t">>, <<"p", "a", "r", "l", "i", "a", "m", "e", "n", "t">>>>) >>

\* create_sample_documents (main_simple_backup.py): the same documents
\* with other dates (2025-08-18, 2025-08-19, 2025-08-17)
create_sample_documents_backup ==
    << [create_sample_documents[1] EXCEPT !.published = <<"0", "5">>],
       [create_sample_documents[2] EXCEPT !.published = <<"0", "6">>],
       [create_sample_documents[3] EXCEPT !.published = <<"0", "4">>] >>

\* A file: whether it exists, whether reading it succeeds, what it holds.
\* documents.pkl holds a pickled list; items.jsonl holds lines, each a
\* document, a blank line or text that json.loads rejects.
NoFile == [exists |-> FALSE, readable |-> FALSE, content |-> << >>]

PickleOf(docs) == [exists |-> TRUE, readable |-> TRUE, content |-> docs]

DocLine(d) == [kind |-> "doc", doc |-> d]

BlankLine == [kind |-> "blank", doc |-> << >>]

BadLine == [kind |-> "bad", doc |-> << >>]

RECURSIVE ReadLines(_)
\* for line in f: if line.strip(): documents.append(json.loads(line))
\* The documents appended before a line raises stay in the list.
ReadLines(lines) ==
    IF lines = << >> \/ Head(lines).kind = "bad" THEN << >>
    ELSE (IF Head(lines).kind = "doc" THEN <<Head(lines).doc>> ELSE << >>)
         \o ReadLines(Tail(lines))

\* load_all_documents, the same text in main.py and main_simple_backup.py;
\* samples is what the file's own create_sample_documents returns
load_documents(pkl, jsonl, samples) ==
    IF pkl.exists /\ pkl.readable
    THEN pkl.content
    ELSE LET documents == IF jsonl.exists /\ jsonl.readable
                          THEN ReadLines(jsonl.content)
                          ELSE << >>
         IN  IF documents = << >> THEN samples ELSE documents

load_all_documents(pkl, jsonl) == load_documents(pkl, jsonl, create_sample_documents)

\* Process start of main.py: ALL_DOCS = load_all_documents()
Startup ==
    /\ pc = "start"
    /\ ALL_DOCS' = load_all_documents(pickle_file, jsonl_file)
    /\ pc' = "serving"
    /\ UNCHANGED <<now, request, response, pickle_file, jsonl_file,
                   documents_store, results, threads>>

-----------------------------------------------------------------------------
(* Merge-mode ingestion (main_simple_backup.py) *)

DigitChar(n) == Alphabet[Ord("0") + n]

\* str(n) for 0 <= n <= 99
IntToStr(n) ==
    IF n < 10 THEN <<DigitChar(n)>> ELSE <<DigitChar(n \div 10), DigitChar(n % 10)>>

\* date.isoformat() at the reduced width: always two digits
DayToStr(day) == <<DigitChar(day \div 10), DigitChar(day % 10)>>

IsLetter(c) ==
    \/ \E i \in 1..Len(UpperLetters) : UpperLetters[i] = c
    \/ \E i \in 1..Len(LowerLetters) : LowerLetters[i] = c

UpperChar(c) ==
    IF \E i \in 1..Len(LowerLetters) : LowerLetters[i] = c
    THEN UpperLetters[CHOOSE i \in 1..Len(LowerLetters) : LowerLetters[i] = c]
    ELSE c

\* str.title(): a letter that starts a word is upper-cased, the others lowered
TitleCase(s) ==
    [i \in 1..Len(s) |->
        IF i = 1 \/ ~IsLetter(s[i - 1]) THEN UpperChar(s[i]) ELSE LowerChar(s[i])]

\* topic.replace(' ', '-')
Slug(topic) == Replace(topic, " ", <<"-">>)

Min(a, b) == IF a < b THEN a ELSE b

\* range(min(limit, cap)) as the 0-based indices i
FetchRange(limit, cap) == 0..(Min(limit, cap) - 1)

Str_regulation == <<"r", "e", "g", "u", "l", "a", "t", "i", "o", "n">>

\* The i-th document of fetch_eur_lex_data (texts cut to the interpolated part)
EurLexDoc(topic, clock, i) ==
    [id |-> <<"e", "u", "r", "l", "e", "x", "-">> \o Slug(topic) \o <<"-">> \o IntToStr(i + 1),
     title |-> TitleCase(topic) \o <<" ">> \o IntToStr(i + 1),
     summary |-> topic,
     source |-> Str_EUR_Lex,
     doc_type |-> IF i % 2 = 0 THEN Str_regulation ELSE <<"d", "i", "r", "e", "c", "t", "i", "v", "e">>,
     published |-> DayToStr(clock.day - i * 2),
     topics |-> <<topic, Str_regulation, <<"e", "u", "-", "l", "a", "w">>>>]

\* The i-th document of fetch_euractiv_data
EuractivDoc(topic, clock, i) ==
    [id |-> <<"e", "u", "r", "a", "c", "t", "i", "v", "-">> \o Slug(topic) \o <<"-">> \o IntToStr(i + 1),
     title |-> TitleCase(topic),
     summary |-> topic,
     source |-> Str_EURACTIV,
     doc_type |-> <<"n", "e", "w", "s">>,
     published |-> DayToStr(clock.day - (i + 1)),
     topics |-> <<topic, <<"p", "o", "l", "i", "t", "i", "c", "s">>, <<"e", "u", "-", "p", "o", "l", "i", "c", "y">>>>]

\* The i-th document of fetch_ep_data
EpDoc(topic, clock, i) ==
    [id |-> <<"e", "p", "-">> \o Slug(topic) \o <<"-">> \o IntToStr(i + 1),
     title |-> TitleCase(topic),
     summary |-> topic,
     source |-> Str_EP_Open_Data,
     doc_type |-> IF i % 3 = 0 THEN <<"p", "a", "r", "l", "i", "a", "m", "e", "n", "t", "a", "r", "y", "_", "q", "u", "e", "s", "t", "i", "o", "n">>
                  ELSE <<"r", "e", "s", "o", "l", "u", "t", "i", "o", "n">>,
     published |-> DayToStr(clock.day - i * 3),
     topics |-> <<topic, <<"p", "a", "r", "l", "i", "a", "m", "e", "n", "t">>, <<"o", "v", "e", "r", "s", "i", "g", "h", "t">>>>]

fetch_eur_lex_data(topic, clock, limit) ==
    [k \in 1..Cardinality(FetchRange(limit, 10)) |-> EurLexDoc(topic, clock, k - 1)]

fetch_euractiv_data(topic, clock, limit) ==
    [k \in 1..Cardinality(FetchRange(limit, 15)) |-> EuractivDoc(topic, clock, k - 1)]

fetch_ep_data(topic, clock, limit) ==
    [k \in 1..Cardinality(FetchRange(limit, 8)) |-> EpDoc(topic, clock, k - 1)]

Src_eur_lex == <<"e", "u", "r", "-", "l", "e", "x">>

Src_euractiv == <<"e", "u", "r", "a", "c", "t", "i", "v">>

Src_ep == <<"e", "p">>

\* The keys of source_functions
KnownSources == {Src_eur_lex, Src_euractiv, Src_ep}

\* source_functions[source](topic, days, limit)
Fetch(source, topic, clock, limit) ==
    CASE source = Src_eur_lex -> fetch_eur_lex_data(topic, clock, limit)
      [] source = Src_euractiv -> fetch_euractiv_data(topic, clock, limit)
      [] source = Src_ep -> fetch_ep_data(topic, clock, limit)

\* if sources is None: sources = ["eur-lex", "euractiv", "ep"]
SourcesOrDefault(sources) ==
    IF sources = Null THEN <<Src_eur_lex, Src_euractiv, Src_ep>> ELSE sources

\* limit // len(sources) raises TypeError when limit is None; the try
\* around the call catches it.
SourceFails(source, limit) == source \in KnownSources /\ limit.isNone

\* What one turn of the loop over sources adds to all_documents
FetchedFrom(source, topic, clock, sources, limit) ==
    IF source \in KnownSources /\ ~limit.isNone
    THEN Fetch(source, topic, clock, limit.value \div Len(sources))
    ELSE << >>

RECURSIVE CollectAll_aborting(_, _, _, _, _)
CollectAll_aborting(topic, clock, sources, limit, n) ==
    IF n = 0 \/ \E m \in 1..n : sources[m] \notin KnownSources THEN << >>
    ELSE CollectAll_aborting(topic, clock, sources, limit, n - 1)
         \o FetchedFrom(sources[n], topic, clock, sources, limit)

RECURSIVE CollectAll(_, _, _, _, _)
\* all_documents after the loop over the first n requested sources
CollectAll(topic, clock, sources, limit, n) ==
    IF n = 0 THEN << >>
    ELSE CollectAll(topic, clock, sources, limit, n - 1)
         \o FetchedFrom(sources[n], topic, clock, sources, limit)

\* results["errors"]: one message per source that raised or is unknown
ErrorOf(source) ==
    IF source \notin KnownSources THEN [error |-> "Unknown source", source |-> source]
    ELSE [error |-> "Failed to ingest from", source |-> source]

RECURSIVE CollectErrors(_, _, _)
CollectErrors(sources, limit, n) ==
    IF n = 0 THEN << >>
    ELSE CollectErrors(sources, limit, n - 1)
         \o (IF sources[n] \notin KnownSources \/ SourceFails(sources[n], limit)
             THEN <<ErrorOf(sources[n])>> ELSE << >>)

\* results["ingested_by_source"]: the count of the last fetch of each source
IngestedBySource(topic, clock, sources, limit) ==
    [s \in {sources[n] : n \in {m \in 1..Len(sources) :
                                    sources[m] \in KnownSources /\ ~limit.isNone}} |->
        Len(FetchedFrom(s, topic, clock, sources, limit))]

NewDocuments_unfiltered(store, all_documents) == all_documents

\* existing_ids = {doc["id"] for doc in documents_store}
ExistingIds(store) == {store[i].id : i \in 1..Len(store)}

\* [doc for doc in all_documents if doc["id"] not in existing_ids]
NewDocuments(store, all_documents) ==
    SelectDocs(all_documents,
               [i \in 1..Len(all_documents) |-> all_documents[i].id \notin ExistingIds(store)])

Merged_replacing_store(store, new_documents) == new_documents

\* documents_store.extend(new_documents)
Merged(store, new_documents) == store \o new_documents

\* doc["id"] on a stored document without the key raises KeyError
IngestRaises(store) == \E i \in 1..Len(store) : store[i].id = Absent

\* ingest_documents: the store it leaves and the report it returns
ingest_documents(store, clock, topic, days, sources, limit) ==
    LET requested == SourcesOrDefault(sources)
        all_documents == CollectAll(topic, clock, requested, limit, Len(requested))
        new_documents == NewDocuments(store, all_documents)
    IN  IF IngestRaises(store)
        THEN [store |-> store, raised |-> TRUE, results |-> [exception |-> "KeyError"]]
        ELSE [store |-> Merged(store, new_documents),
              raised |-> FALSE,
              results |->
                  [topic |-> topic, days |-> days, sources_requested |-> requested,
                   ingested_by_source |-> IngestedBySource(topic, clock, requested, limit),
                   total_new_documents |-> Len(new_documents),
                   errors |-> CollectErrors(requested, limit, Len(requested))]]

\* Process start of main_simple_backup.py: documents_store = load_all_documents()
StartupBackup ==
    /\ pc = "start"
    /\ documents_store' = load_documents(pickle_file, jsonl_file,
                                         create_sample_documents_backup)
    /\ pc' = "serving"
    /\ UNCHANGED <<ALL_DOCS, now, request, response, pickle_file, jsonl_file, results,
                   threads>>

\* POST /api/ingest: ingest_data calls ingest_documents and answers with the
\* report, or with 500 when it raised
IngestData(topic, days, sources, limit) ==
    /\ pc = "serving" /\ request = NoRequest
    /\ LET run == ingest_documents(documents_store, now, topic, days, sources, limit)
       IN  /\ Len(run.store) <= MaxStore
           /\ documents_store' = run.store
           /\ results' = run.results
           /\ request' = [op |-> "ingest", topic |-> topic, days |-> days,
                          sources |-> sources, limit |-> limit]
           /\ response' = IF run.raised
                          THEN [status |-> 500]
                          ELSE [status |-> 200, total_documents_now |-> Len(run.store)]
    /\ UNCHANGED <<ALL_DOCS, now, pickle_file, jsonl_file, pc, threads>>

-----------------------------------------------------------------------------
(* The inputs the specifications draw from *)

Str_news == <<"n", "e", "w", "s">>

Str_S1 == <<"S", "1">>

Str_S2 == <<"S", "2">>

\* All sequences over S of length 0..n
SeqsUpTo(S, n) == UNION {[1..k -> S] : k \in 0..n}

\* The stores of up to MaxDocs documents of the given shapes, the i-th
\* with the id "d<i>"
Stores(shapes) ==
    {[i \in 1..Len(f) |-> [f[i] EXCEPT !.id = <<"d">> \o IntToStr(i)]] :
        f \in SeqsUpTo(shapes, MaxDocs)}

InitFromPickle(stores, clocks) ==
    /\ pickle_file \in {PickleOf(s) : s \in stores}
    /\ jsonl_file = NoFile
    /\ now \in clocks
    /\ pc = "start"
    /\ ALL_DOCS = << >>
    /\ documents_store = << >>
    /\ request = NoRequest
    /\ response = NoResponse
    /\ results = NoResponse
    /\ threads = NoThreads

OptionalInts(n) == {NoneInt} \cup {SomeInt(k) : k \in 0..n}

-----------------------------------------------------------------------------
(* SpecDates: get_documents over stores whose published values vary *)

PublishedValues ==
    {Absent, Null, << >>, <<"0", "5">>, <<"0", "7">>, <<"0", "7", "Z">>, <<"x">>}

DateShapes ==
    {Doc(Absent, <<"T", "a">>, << >>, Str_S1, Str_news, p, t) :
        p \in PublishedValues, t \in {<< <<"A">> >>, << >>}}

InitDates == InitFromPickle(Stores(DateShapes), [day : {7}, later : BOOLEAN])

NextDates ==
    \/ Startup
    \/ Reply
    \/ \E topic \in {Null, <<"a">>}, source \in {Null, Str_S1},
          doc_type \in {Null, Str_news}, search \in {Null, <<"t">>},
          days \in {NoneInt, SomeInt(0), SomeInt(1), SomeInt(3)},
          limit \in OptionalInts(MaxDocs) :
            GetDocuments(topic, source, doc_type, days, search, limit)

SpecDates == InitDates /\ [][NextDates]_vars

-----------------------------------------------------------------------------
(* SpecFilter: get_documents over stores whose topics and sources vary *)

FilterShapes ==
    {Doc(Absent, <<"T">>, << >>, s, Str_news, p, t) :
        s \in {Str_S1, Str_S2},
        p \in {<<"0", "5">>, <<"0", "7">>, <<"x">>},
        t \in {<< <<"A", "b">> >>, << <<"c">>, <<"b">> >>}}

InitFilter == InitFromPickle(Stores(FilterShapes), [day : {7}, later : {TRUE}])

NextFilter ==
    \/ Startup
    \/ Reply
    \/ \E topic \in {Null, Str_all, <<"a">>, <<"B">>}, source \in {Null, Str_S1},
          days \in {NoneInt, SomeInt(3)}, limit \in OptionalInts(MaxDocs) :
            GetDocuments(topic, source, Null, days, Null, limit)

SpecFilter == InitFilter /\ [][NextFilter]_vars

-----------------------------------------------------------------------------
(* SpecStats: get_stats over stores whose source and doc_type vary *)

StatsShapes ==
    {Doc(Absent, <<"T">>, << >>, s, t, p, << >>) :
        s \in {Absent, Null, Str_S1, Str_Unknown},
        t \in {Absent, Null, Str_news, Str_procedure},
        p \in {<<"0", "7">>}}

InitStats == InitFromPickle(Stores(StatsShapes), [day : {7}, later : {TRUE}])

NextStats == Startup \/ GetStats \/ Reply

SpecStats == InitStats /\ [][NextStats]_vars

-----------------------------------------------------------------------------
(* SpecLoad: load_all_documents over the states of the two files *)

LoadShapes == {Doc(Absent, <<"T">>, << >>, Str_S1, Str_news, <<"0", "7">>, << >>)}

Unreadable == [exists |-> TRUE, readable |-> FALSE, content |-> << >>]

JsonlLines == {BlankLine, BadLine} \cup {DocLine(d[1]) : d \in Stores(LoadShapes) \ {<< >>}}

InitLoad ==
    /\ pickle_file \in {NoFile, Unreadable} \cup {PickleOf(s) : s \in Stores(LoadShapes)}
    /\ jsonl_file \in {NoFile, Unreadable} \cup
           {[exists |-> TRUE, readable |-> TRUE, content |-> l] :
               l \in SeqsUpTo(JsonlLines, MaxLines)}
    /\ now = [day |-> 7, later |-> TRUE]
    /\ pc = "start"
    /\ ALL_DOCS = << >>
    /\ documents_store = << >>
    /\ request = NoRequest
    /\ response = NoResponse
    /\ results = NoResponse
    /\ threads = NoThreads

NextLoad == Startup

SpecLoad == InitLoad /\ [][NextLoad]_vars

-----------------------------------------------------------------------------
(* SpecIngest: merge-mode ingestion runs on the store of the backup server *)

IngestTopics == {<<"a", " ", "b">>, <<"a", "-", "b">>}

Src_rss == <<"r", "s", "s">>

\* IngestRequest.sources: absent, empty, one source, an unknown one, a
\* repeated one, two of them
RequestedSources ==
    {Null, << >>, <<Src_ep>>, <<Src_eur_lex>>, <<Src_rss>>, <<Src_ep, Src_ep>>,
     <<Src_ep, Src_rss>>, <<Src_eur_lex, Src_euractiv>>, <<Src_rss, Src_euractiv>>}

\* IngestRequest.limit
RequestedLimits == {NoneInt, SomeInt(0), SomeInt(1), SomeInt(2), SomeInt(3)}

\* The snapshots the server may start from: none (the sample set), one
\* holding a document of an earlier run, one holding a document without id
IngestSnapshots ==
    {NoFile,
     PickleOf(<<EpDoc(<<"a">>, [day |-> 20, later |-> FALSE], 0)>>),
     PickleOf(<<Doc(Absent, <<"T">>, << >>, Str_S1, Str_news, <<"0", "7">>, << >>)>>)}

InitIngest ==
    /\ pickle_file \in IngestSnapshots
    /\ jsonl_file = NoFile
    /\ now = [day |-> 30, later |-> TRUE]
    /\ pc = "start"
    /\ ALL_DOCS = << >>
    /\ documents_store = << >>
    /\ request = NoRequest
    /\ response = NoResponse
    /\ results = NoResponse
    /\ threads = NoThreads

NextIngest ==
    \/ StartupBackup
    \/ Reply
    \/ \E topic \in IngestTopics,
          sources \in RequestedSources, limit \in RequestedLimits :
            IngestData(topic, 30, sources, limit)

SpecIngest == InitIngest /\ [][NextIngest]_vars

-----------------------------------------------------------------------------
(* Claims about merge-mode ingestion, checked under SpecIngest *)

\* The step is one run of ingest_documents
IsIngestRun == request = NoRequest /\ request'.op = "ingest"

\* C1: after any sequence of merge-mode ingestion runs from a store with
\* pairwise distinct ids, no two documents of documents_store have the
\* same id (also when the requested sources repeat a name).
C1_NoDuplicateIds ==
    \A i, j \in 1..Len(documents_store) :
        i # j => documents_store[i].id # documents_store[j].id

\* C2: every merge-mode ingestion run leaves documents_store at least as
\* long as it was before the run, also when sources fail or are unknown.
C2_StoreNeverShrinks ==
    [][IsIngestRun => Len(documents_store') >= Len(documents_store)]_vars

\* A run that reported an unknown source and still added documents
C2_Witness ==
    /\ request.op = "ingest"
    /\ response.status = 200
    /\ \E k \in 1..Len(results.errors) : results.errors[k].error = "Unknown source"
    /\ results.total_new_documents > 0
    /\ Len(documents_store) > results.total_new_documents

\* The ids of the documents one source returns
IdsOfFetch(source, topic, clock, limit) ==
    {Fetch(source, topic, clock, limit)[i].id :
        i \in 1..Len(Fetch(source, topic, clock, limit))}

\* C14: in ingest_documents, when a requested source raises or is not a
\* known source, an error message naming it is appended to the report,
\* the run goes on with the other requested sources, and every document
\* fetched from the other sources is in the store after the run.
C14_FailedSourceDoesNotAbort ==
    [][(IsIngestRun /\ ~IngestRaises(documents_store))
       => LET requested == SourcesOrDefault(request'.sources)
              limit == request'.limit
          IN  /\ \A n \in 1..Len(requested) :
                    (requested[n] \notin KnownSources \/ limit.isNone)
                    => \E k \in 1..Len(results'.errors) :
                          results'.errors[k].source = requested[n]
              /\ \A n \in 1..Len(requested) :
                    (requested[n] \in KnownSources /\ ~limit.isNone)
                    => IdsOfFetch(requested[n], request'.topic, now,
                                  limit.value \div Len(requested))
                          \subseteq ExistingIds(documents_store')]_vars

\* An unknown source was requested first; the report names it and the
\* documents of the source requested after it were added
C14_Witness ==
    /\ request.op = "ingest"
    /\ request.sources = <<Src_rss, Src_euractiv>>
    /\ \E k \in 1..Len(results.errors) : results.errors[k].source = Src_rss
    /\ results.total_new_documents > 0
    /\ \E i \in 1..Len(documents_store) : documents_store[i].source = Str_EURACTIV

-----------------------------------------------------------------------------
(* Claims about get_documents *)

\* The set of documents a response carries
DocSet(r) == {r.documents[i] : i \in 1..Len(r.documents)}

\* The same request with only the topic, and with only the source
TopicOnly ==
    get_documents(ALL_DOCS, now, request.topic, Null, request.doc_type,
                  request.days, request.search, request.limit)

SourceOnly ==
    get_documents(ALL_DOCS, now, Null, request.source, request.doc_type,
                  request.days, request.search, request.limit)

\* The limit cuts nothing off: absent, 0, or at least the size of the store
LimitKeepsAll ==
    \/ ~TruthyInt(request.limit)
    \/ request.limit.value >= Len(ALL_DOCS)

PublishedMissing(d) == d.published \in {Absent, Null}

\* published is a non-empty string that does not parse as a timestamp
PublishedMalformed(d) == Truthy(Get(d, "published")) /\ ParseRaises(d.published)

NoFilterButDays ==
    /\ request.op = "get_documents"
    /\ ~Truthy(request.topic) /\ ~Truthy(request.source)
    /\ ~Truthy(request.doc_type) /\ ~Truthy(request.search)

\* C4: with no topic, source, doc_type, search or days filter, get_documents
\* returns the documents in descending order of published, every document
\* whose published is missing (key absent or value null) after every
\* document that has one.
C4_SortedMissingLast ==
    (NoFilterButDays /\ ~TruthyInt(request.days))
    => /\ response.status = 200
       /\ \A i, j \in 1..Len(response.documents) :
             i < j =>
               LET a == response.documents[i]
                   b == response.documents[j]
               IN  /\ PublishedMissing(a) => ~Truthy(Get(b, "published"))
                   /\ (~PublishedMissing(a) /\ ~PublishedMissing(b))
                          => ~StrLess(a.published, b.published)

\* C5: with a document whose published is a non-empty string that does not
\* parse, get_documents with the days filter active completes and leaves
\* that document out; with the days filter inactive the document is in
\* the result when it passes the other criteria.
C5_MalformedPublishedTolerated ==
    (/\ request.op = "get_documents"
     /\ \E i \in 1..Len(ALL_DOCS) : PublishedMalformed(ALL_DOCS[i]))
    => IF TruthyInt(request.days)
       THEN /\ response.status = 200
            /\ \A d \in DocSet(response) : ~PublishedMalformed(d)
       ELSE (response.status = 200 /\ ~TruthyInt(request.limit))
            => \A i \in 1..Len(ALL_DOCS) :
                  (/\ PublishedMalformed(ALL_DOCS[i])
                   /\ ApplySearch(ApplyDocType(ApplySource(ApplyTopic(
                          <<ALL_DOCS[i]>>, request.topic), request.source),
                          request.doc_type), request.search) # << >>)
                  => ALL_DOCS[i] \in DocSet(response)

\* The same request without a limit
Unlimited ==
    get_documents(ALL_DOCS, now, request.topic, request.source, request.doc_type,
                  request.days, request.search, NoneInt)

\* C7: for every limit >= 0 the number of documents returned is at most
\* limit, and they are the first ones of the filtered, sorted sequence.
C7_LimitCaps ==
    (/\ request.op = "get_documents"
     /\ ~request.limit.isNone /\ request.limit.value >= 0
     /\ response.status = 200)
    => /\ Len(response.documents) <= request.limit.value
       /\ response.total <= request.limit.value
       /\ response.documents = SubSeq(Unlimited.documents, 1, Len(response.documents))

\* published parses and falls on the current day
PublishedToday(d) ==
    /\ Truthy(Get(d, "published"))
    /\ ~ParseRaises(d.published)
    /\ ParseDay(d.published) = now.day

\* C8: get_documents with days = 0 on a store in which no document's
\* published falls on the current day returns no documents and total 0.
C8_DaysZeroKeepsOnlyToday ==
    (/\ request.op = "get_documents"
     /\ request.days = SomeInt(0)
     /\ \A i \in 1..Len(ALL_DOCS) : ~PublishedToday(ALL_DOCS[i])
     /\ response.status = 200)
    => response.documents = << >> /\ response.total = 0

\* C9: get_documents completes without a runtime error for every
\* combination of criteria on the empty store (no documents, total 0) and
\* on every store whose documents all lack published (key absent or value
\* null); on the latter an active days filter yields an empty result.
C9_NoErrorWithoutPublished ==
    (/\ request.op = "get_documents"
     /\ \A i \in 1..Len(ALL_DOCS) : PublishedMissing(ALL_DOCS[i]))
    => /\ response.status = 200
       /\ ALL_DOCS = << >> => (response.documents = << >> /\ response.total = 0)
       /\ TruthyInt(request.days) => response.documents = << >>

-----------------------------------------------------------------------------
(* Claims about load_all_documents and get_stats *)

\* C6: load_all_documents never returns an empty store, whatever the state
\* of the two files (absent, unreadable or corrupt, readable but holding
\* zero documents): it returns the snapshot's documents if the snapshot
\* loads with documents, and the built-in sample set when neither file
\* exists.
C6_NeverEmptyCascade ==
    pc = "serving"
    => /\ ALL_DOCS # << >>
       /\ (pickle_file.exists /\ pickle_file.readable /\ pickle_file.content # << >>)
              => ALL_DOCS = pickle_file.content
       /\ (~pickle_file.exists /\ ~jsonl_file.exists)
              => ALL_DOCS = create_sample_documents

\* The name the claim counts a document under: the field's value, or
\* "Unknown" when the field is missing (key absent or value null)
GroupName(d, key) == IF d[key] \in {Absent, Null} THEN Str_Unknown ELSE d[key]

CountsAreExact(groups, key) ==
    /\ \A k \in 1..Len(groups) :
          groups[k].count =
              Cardinality({i \in 1..Len(ALL_DOCS) : GroupName(ALL_DOCS[i], key) = groups[k].name})
    /\ \A i \in 1..Len(ALL_DOCS) :
          \E k \in 1..Len(groups) : groups[k].name = GroupName(ALL_DOCS[i], key)
    /\ \A k, l \in 1..Len(groups) : groups[k].name = groups[l].name => k = l

RECURSIVE SumCounts(_, _)
SumCounts(groups, n) ==
    IF n = 0 THEN 0 ELSE SumCounts(groups, n - 1) + groups[n].count

\* C10: get_stats reports for each distinct source and doc_type exactly the
\* number of documents carrying it, counts every document whose source or
\* doc_type is missing (key absent or value null) under "Unknown", and the
\* counts of each grouping sum to total_documents.
C10_StatsGroupCounts ==
    request.op = "get_stats"
    => /\ CountsAreExact(response.sources, "source")
       /\ CountsAreExact(response.document_types, "doc_type")
       /\ SumCounts(response.sources, Len(response.sources)) = response.total_documents
       /\ SumCounts(response.document_types, Len(response.document_types))
              = response.total_documents

-----------------------------------------------------------------------------
(* rag_query *)

\* The characters str.split() splits on
Whitespace == {" ", "\t", "\n"}

\* The length of the run of non-whitespace characters that s starts with
WordLen(s) ==
    IF \A i \in 1..Len(s) : s[i] \notin Whitespace THEN Len(s)
    ELSE (CHOOSE i \in 1..Len(s) :
              s[i] \in Whitespace /\ \A j \in 1..(i - 1) : s[j] \notin Whitespace) - 1

RECURSIVE Split(_)
\* s.split(): the maximal runs of non-whitespace characters, in order
Split(s) ==
    IF s = << >> THEN << >>
    ELSE IF Head(s) \in Whitespace THEN Split(Tail(s))
    ELSE <<SubSeq(s, 1, WordLen(s))>> \o Split(SubSeq(s, WordLen(s) + 1, Len(s)))

RECURSIVE Join(_, _)
\* sep.join(parts)
Join(sep, parts) ==
    IF parts = << >> THEN << >>
    ELSE IF Len(parts) = 1 THEN parts[1]
    ELSE parts[1] \o sep \o Join(sep, Tail(parts))

\* f"{v}": a str as it is, None as the text None
Format(v) == IF v = Null THEN <<"N", "o", "n", "e">> ELSE v

\* f"{doc.get('title', '')} {doc.get('summary', '')} {' '.join(doc.get('topics', []))}"
DocText(d) ==
    Format(GetDefault(d, "title", << >>)) \o <<" ">>
    \o Format(GetDefault(d, "summary", << >>)) \o <<" ">>
    \o Join(<<" ">>, d.topics)

IsRelevant_every_word(d, query_lower) ==
    \A k \in 1..Len(Split(query_lower)) :
        IsSubstring(Split(query_lower)[k], Lower(DocText(d)))

\* any(word in doc_text.lower() for word in query_lower.split())
IsRelevant(d, query_lower) ==
    \E k \in 1..Len(Split(query_lower)) :
        IsSubstring(Split(query_lower)[k], Lower(DocText(d)))

\* relevant = relevant[:5]
MaxRelevant == 5

Relevant_last(store, query_lower) ==
    LET all == SelectDocs(store, [i \in 1..Len(store) |-> IsRelevant(store[i], query_lower)])
    IN  SubSeq(all, Len(all) - Min(Len(all), MaxRelevant) + 1, Len(all))

\* The loop over the store, then the cut to the first five
Relevant(store, query_lower) ==
    LET all == SelectDocs(store, [i \in 1..Len(store) |-> IsRelevant(store[i], query_lower)])
    IN  SubSeq(all, 1, Min(Len(all), MaxRelevant))

\* The three templates, each cut to its first line and the line that
\* interpolates len(relevant)
HydrogenTemplate(n) ==
    <<"B", "a", "s", "e", "d", " ", "o", "n", " ", "P", "o", "l", "i", "c", "y", " ", "R", "a", "d", "a", "r", " ", "d", "a", "t", "a", ",", " ", "h", "e", "r", "e", " ", "a", "r", "e", " ", "k", "e", "y", " ", "h", "y", "d", "r", "o", "g", "e", "n", " ", "d", "e", "v", "e", "l", "o", "p", "m", "e", "n", "t", "s", ":", " ", "*", "*", "S", "o", "u", "r", "c", "e", "s", ":", "*", "*", " ">>
    \o IntToStr(n) \o <<" ", "r", "e", "l", "e", "v", "a", "n", "t", " ", "d", "o", "c", "u", "m", "e", "n", "t", "s", " ", "f", "o", "u", "n", "d", ".">>

ElectricTemplate(n) ==
    <<"E", "l", "e", "c", "t", "r", "i", "c", " ", "v", "e", "h", "i", "c", "l", "e", " ", "d", "e", "v", "e", "l", "o", "p", "m", "e", "n", "t", "s", " ", "f", "r", "o", "m", " ", "P", "o", "l", "i", "c", "y", " ", "R", "a", "d", "a", "r", ":", " ", "*", "*", "S", "o", "u", "r", "c", "e", "s", ":", "*", "*", " ">>
    \o IntToStr(n) \o <<" ", "d", "o", "c", "u", "m", "e", "n", "t", "s", " ", "a", "n", "a", "l", "y", "z", "e", "d", ".">>

GenericTemplate(n) ==
    <<"F", "o", "u", "n", "d", " ">> \o IntToStr(n) \o <<" ", "r", "e", "l", "e", "v", "a", "n", "t", " ", "d", "o", "c", "u", "m", "e", "n", "t", "s", " ", "c", "o", "v", "e", "r", "i", "n", "g", ":">>

Str_hydrogen == <<"h", "y", "d", "r", "o", "g", "e", "n">>

Str_electric == <<"e", "l", "e", "c", "t", "r", "i", "c">>

\* if 'hydrogen' in query_lower: ... elif 'electric' in query_lower: ... else: ...
ResponseText(query_lower, n) ==
    IF IsSubstring(Str_hydrogen, query_lower) THEN HydrogenTemplate(n)
    ELSE IF IsSubstring(Str_electric, query_lower) THEN ElectricTemplate(n)
    ELSE GenericTemplate(n)

\* [{"id": doc.get('id'), "title": doc.get('title'), "relevance_score": 0.8} ...]
RagSources(relevant) ==
    [i \in 1..Len(relevant) |->
        [id |-> Get(relevant[i], "id"), title |-> Get(relevant[i], "title"),
         relevance_score |-> "0.8"]]

\* rag_query; query_data is the request body, a dict
rag_query(store, query_data) ==
    LET query == GetDefault(query_data, "query", << >>)
        query_lower == Lower(query)
        relevant == Relevant(store, query_lower)
    IN  IF query = Null
        THEN [status |-> 500, exception |-> "AttributeError",
              response |-> << >>, sources |-> << >>]
        ELSE [status |-> 200, exception |-> "",
              response |-> ResponseText(query_lower, Len(relevant)),
              sources |-> RagSources(relevant)]

\* POST /api/rag/query
RagQuery(query_data) ==
    /\ pc = "serving" /\ request = NoRequest
    /\ request' = [op |-> "rag_query", query_data |-> query_data]
    /\ response' = rag_query(ALL_DOCS, query_data)
    /\ UNCHANGED <<ALL_DOCS, now, pickle_file, jsonl_file, pc,
                   documents_store, results, threads>>

-----------------------------------------------------------------------------
(* SpecRag: rag_query over stores of up to MaxRagDocs documents *)

\* documents in a snapshot SpecRag starts from: more than MaxRelevant
MaxRagDocs == 7

\* The stores of up to n documents of the given shapes, the i-th with the
\* id "d<i>"
StoresUpTo(shapes, n) ==
    {[i \in 1..Len(f) |-> [f[i] EXCEPT !.id = <<"d">> \o IntToStr(i)]] :
        f \in SeqsUpTo(shapes, n)}

\* A document that holds every field, and one without a summary key
RagShapes ==
    {Doc(Absent, <<"H", "y", "d", "r", "o", "g", "e", "n">>, <<"x">>, Str_S1, Str_news, <<"0", "7">>, << >>),
     Doc(Absent, <<"P", "o", "l", "i", "c", "y">>, Absent, Str_S1, Str_news, <<"0", "7">>, <<<<"E", "U">>, <<"C", "a", "r", "s">>>>)}

\* The bodies of the requests: no query key, query null, query texts
RagQueries ==
    {[query |-> q] :
        q \in {Absent, Null, << >>, <<"h", "y", "d", "r", "o", "g", "e", "n", " ", "p", "o", "l", "i", "c", "y">>, <<"P", "O", "L", "I", "C", "Y">>, <<"e", "l", "e", "c", "t", "r", "i", "c", " ", " ", "e", "u">>,
               <<"c", "a", "r", "s", " ", "h", "y", "d", "r", "o", "g", "e", "n">>, <<"z", "z">>, <<"y", "d", "r", "o">>}}

InitRag == InitFromPickle(StoresUpTo(RagShapes, MaxRagDocs), [day : {7}, later : {TRUE}])

NextRag ==
    \/ Startup
    \/ Reply
    \/ \E query_data \in RagQueries : RagQuery(query_data)

SpecRag == InitRag /\ [][NextRag]_vars

-----------------------------------------------------------------------------
(* Claims about rag_query, checked under SpecRag *)

\* The whitespace-separated tokens of q: its maximal runs of non-whitespace
Tokens(q) ==
    {SubSeq(q, p[1], p[2]) :
        p \in {r \in (1..Len(q)) \X (1..Len(q)) :
                  /\ r[1] <= r[2]
                  /\ \A k \in r[1]..r[2] : q[k] \notin Whitespace
                  /\ r[1] = 1 \/ q[r[1] - 1] \in Whitespace
                  /\ r[2] = Len(q) \/ q[r[2] + 1] \in Whitespace}}

\* title, summary and the joined topics, concatenated with single spaces;
\* a field the document does not hold reads as the empty string
Concatenation(d) ==
    (IF d.title = Absent THEN << >> ELSE d.title) \o <<" ">>
    \o (IF d.summary = Absent THEN << >> ELSE d.summary) \o <<" ">>
    \o Join(<<" ">>, d.topics)

\* The positions of the store whose document the claim calls relevant
Matching(store, q) ==
    LET tokens == Tokens(Lower(q))
    IN  {i \in 1..Len(store) :
            \E t \in tokens : IsSubstring(t, Lower(Concatenation(store[i])))}

\* The text of the request's query, the empty text without a query key
QueryText == IF request.query_data.query = Absent THEN << >> ELSE request.query_data.query

\* The positions of the first five matching documents
FirstMatching(store, q) ==
    LET matching == Matching(store, q)
    IN  {i \in matching : Cardinality({j \in matching : j < i}) < MaxRelevant}

\* C11: rag_query returns as sources the first five (or all, if fewer)
\* documents, in store order, among those for which some whitespace-
\* separated token of the lower-cased query is a substring of the lower-
\* cased concatenation of title, summary and joined topics; the count in
\* the response text is the number of sources.
C11_FirstFiveRelevant ==
    (request.op = "rag_query" /\ request.query_data.query # Null)
    => LET first == FirstMatching(ALL_DOCS, QueryText)
       IN
       /\ response.status = 200
       /\ Len(response.sources) = Cardinality(first)
       /\ \A k \in 1..Len(response.sources) :
             \E i \in first :
                /\ Cardinality({j \in first : j < i}) = k - 1
                /\ response.sources[k].id = ALL_DOCS[i].id
                /\ response.sources[k].title = Get(ALL_DOCS[i], "title")
       /\ response.response \in {HydrogenTemplate(Len(response.sources)),
                                 ElectricTemplate(Len(response.sources)),
                                 GenericTemplate(Len(response.sources))}

\* More than five documents match, one that does not match stands before
\* a match, and five sources come back
C11_Witness ==
    /\ request.op = "rag_query"
    /\ response.status = 200
    /\ Len(response.sources) = MaxRelevant
    /\ Cardinality(Matching(ALL_DOCS, QueryText)) > MaxRelevant
    /\ \E i \in 1..Len(ALL_DOCS) : \E j \in FirstMatching(ALL_DOCS, QueryText) :
          i < j /\ i \notin Matching(ALL_DOCS, QueryText)

\* The positions of the documents with "hydrogen" in the title
HydrogenTitled(store) ==
    {i \in 1..Len(store) :
        /\ store[i].title \notin {Absent, Null}
        /\ IsSubstring(Str_hydrogen, Lower(store[i].title))}

SourceIds == {response.sources[k].id : k \in 1..Len(response.sources)}

IsHydrogenPolicyQuery ==
    /\ request.op = "rag_query"
    /\ request.query_data.query = <<"h", "y", "d", "r", "o", "g", "e", "n", " ", "p", "o", "l", "i", "c", "y">>

\* C12 as stated: on every store that holds a document with "hydrogen" in
\* its title, the query "hydrogen policy" returns that document's id among
\* the sources and the hydrogen template as text.
C12_HydrogenDocAlwaysReturned ==
    IsHydrogenPolicyQuery
    => /\ \A i \in HydrogenTitled(ALL_DOCS) : ALL_DOCS[i].id \in SourceIds
       /\ response.response = HydrogenTemplate(Len(response.sources))

\* C12 as amended: the query "hydrogen policy" returns the id of every
\* document with "hydrogen" in its title that is among the first five
\* matching documents of the store, and the hydrogen template as text.
C12_HydrogenDocAmongFirstFive ==
    IsHydrogenPolicyQuery
    => /\ LET matching == Matching(ALL_DOCS, QueryText)
          IN  \A i \in HydrogenTitled(ALL_DOCS) :
                 Cardinality({j \in matching : j < i}) < MaxRelevant
                 => ALL_DOCS[i].id \in SourceIds
       /\ response.response = HydrogenTemplate(Len(response.sources))

\* The query "hydrogen policy" on a store of more than five matching
\* documents whose first one has "hydrogen" in its title
C12_Witness ==
    /\ IsHydrogenPolicyQuery
    /\ Cardinality(Matching(ALL_DOCS, QueryText)) > MaxRelevant
    /\ 1 \in HydrogenTitled(ALL_DOCS)
    /\ ALL_DOCS[1].id \in SourceIds
    /\ response.response = HydrogenTemplate(MaxRelevant)

-----------------------------------------------------------------------------
(* The adapters of ingestion_service.py.  A DocItem is modelled by the     *)
(* fields the handlers read; body_text, url, language and extra are        *)
(* written to the file and read by no handler.                             *)

\* time.strftime('%Y-%m-%dT%H:%M:%SZ', t) at the reduced width
StrfTime(day) == DayToStr(day) \o <<"Z">>

\* A feed entry: each attribute is a value or Absent (no such attribute);
\* published_parsed is a day, or Null when the feed's date did not parse
Entry(id, title, link, summary, published_parsed, tags) ==
    [id |-> id, title |-> title, link |-> link, summary |-> summary,
     published_parsed |-> published_parsed, tags |-> tags]

\* Reading a missing attribute (entry.id, entry.title, entry.link,
\* entry.summary) raises AttributeError; strftime of None raises TypeError
EntryRaises(entry) ==
    \/ entry.id = Absent \/ entry.title = Absent
    \/ entry.link = Absent \/ entry.summary = Absent
    \/ entry.published_parsed.kind = "none"

\* The DocItem of one feed entry
EuractivItem(entry) ==
    Doc(entry.id, entry.title, entry.summary, Str_EURACTIV, <<"N", "e", "w", "s">>,
        IF entry.published_parsed.kind = "absent" THEN Null
        ELSE StrfTime(entry.published_parsed.day),
        IF entry.tags = Absent THEN << >> ELSE entry.tags)

RECURSIVE EuractivItems(_)
\* for entry in feed.entries: try: docs.append(DocItem(...)) except: log
EuractivItems(entries) ==
    IF entries = << >> THEN << >>
    ELSE (IF EntryRaises(Head(entries)) THEN << >> ELSE <<EuractivItem(Head(entries))>>)
         \o EuractivItems(Tail(entries))

\* ingest_euractiv; feed is what feedparser.parse returns, or that it raised
ingest_euractiv(feed) ==
    IF feed.raises \/ feed.bozo THEN << >> ELSE EuractivItems(feed.entries)

\* A cell of a query binding: the variable is not bound (absent), bound to
\* the usual {"value": ...} dict, or bound to something that is no dict
NoCell == [kind |-> "absent", value |-> Absent]

Cell(value) == [kind |-> "dict", value |-> value]

BadCell == [kind |-> "malformed", value |-> Absent]

Binding(work, title, date, url) == [work |-> work, title |-> title, date |-> date, url |-> url]

\* result.get(name, {}).get("value"): None without the variable or the key
CellValue(cell) == IF cell.value = Absent THEN Null ELSE cell.value

\* doc_id_uri is falsy: continue
BindingSkipped(result) == ~Truthy(CellValue(result.work))

\* .get on a cell that is no dict raises AttributeError; the cells of a
\* skipped binding other than work are never read
BindingRaises(result) ==
    \/ result.work.kind = "malformed"
    \/ /\ ~BindingSkipped(result)
       /\ \/ result.title.kind = "malformed"
          \/ result.date.kind = "malformed"
          \/ result.url.kind = "malformed"

\* s.split('/')[-1]
LastSegment(s) ==
    IF \E i \in 1..Len(s) : s[i] = "/"
    THEN SubSeq(s, (CHOOSE i \in 1..Len(s) :
                        s[i] = "/" /\ \A j \in (i + 1)..Len(s) : s[j] # "/") + 1, Len(s))
    ELSE s

Str_eurlex_ == <<"e", "u", "r", "l", "e", "x", "_">>

\* The DocItem of one binding
EurlexItem(result) ==
    Doc(Str_eurlex_ \o LastSegment(result.work.value),
        IF result.title.value = Absent THEN <<"N", "o", " ", "t", "i", "t", "l", "e", " ", "p", "r", "o", "v", "i", "d", "e", "d">> ELSE result.title.value,
        <<"E", "U", " ", "l", "e", "g", "a", "l", " ", "d", "o", "c", "u", "m", "e", "n", "t", " ", "p", "u", "b", "l", "i", "s", "h", "e", "d", " ", "o", "n", " ">>
            \o (IF result.date.value = Absent THEN <<"N", "/", "A">> ELSE result.date.value) \o <<".">>,
        Str_EUR_Lex, <<"L", "e", "g", "a", "l">>,
        CellValue(result.date),
        <<<<"E", "U", " ", "L", "e", "g", "i", "s", "l", "a", "t", "i", "o", "n">>, <<"R", "e", "g", "u", "l", "a", "t", "i", "o", "n">>, <<"D", "i", "r", "e", "c", "t", "i", "v", "e">>>>)

RECURSIVE EurlexItems(_)
\* for result in results["results"]["bindings"]: ... docs.append(doc)
EurlexItems(bindings) ==
    IF bindings = << >> THEN << >>
    ELSE (IF BindingSkipped(Head(bindings)) THEN << >> ELSE <<EurlexItem(Head(bindings))>>)
         \o EurlexItems(Tail(bindings))

\* ingest_eurlex; endpoint is what the query returns, or that it raised.
\* The one try encloses the whole loop: a binding that raises ends it and
\* the except clause returns [].
ingest_eurlex(endpoint) ==
    IF endpoint.raises \/ \E i \in 1..Len(endpoint.bindings) : BindingRaises(endpoint.bindings[i])
    THEN << >>
    ELSE EurlexItems(endpoint.bindings)

\* A call of ingest_euractiv
FetchEuractiv(feed) ==
    /\ response = NoResponse
    /\ request' = [op |-> "adapters"]
    /\ response' = [status |-> 200, feed |-> feed, docs |-> ingest_euractiv(feed)]
    /\ UNCHANGED <<ALL_DOCS, now, pickle_file, jsonl_file, pc, documents_store,
                   results, threads>>

\* A call of ingest_eurlex
FetchEurlex(endpoint) ==
    /\ results = NoResponse
    /\ request' = [op |-> "adapters"]
    /\ results' = [status |-> 200, endpoint |-> endpoint, docs |-> ingest_eurlex(endpoint)]
    /\ UNCHANGED <<ALL_DOCS, now, pickle_file, jsonl_file, pc, documents_store,
                   response, threads>>

-----------------------------------------------------------------------------
(* run_ingestion: the replace-mode pipeline *)

\* doc.to_json() + '\n': json.dumps writes the dict on one line (a newline
\* in a text is escaped), None as null; json.loads reads the dict back
ToJsonLine(d) == DocLine(d)

WriteLines_appending(file, all_docs) ==
    [exists |-> TRUE, readable |-> TRUE,
     content |-> file.content \o [i \in 1..Len(all_docs) |-> ToJsonLine(all_docs[i])]]

\* with open(output_path, 'w') as f: for doc in all_docs: f.write(...)
WriteLines(file, all_docs) ==
    [exists |-> TRUE, readable |-> TRUE,
     content |-> [i \in 1..Len(all_docs) |-> ToJsonLine(all_docs[i])]]

\* run_ingestion: only ingest_eurlex is called, the call of ingest_euractiv
\* is commented out
run_ingestion(file, endpoint) == WriteLines(file, ingest_eurlex(endpoint))

\* One run of the ingestion script, while the server process is down
RunIngestion(endpoint) ==
    /\ pc = "start" /\ request = NoRequest
    /\ request' = [op |-> "run_ingestion", endpoint |-> endpoint]
    /\ jsonl_file' = run_ingestion(jsonl_file, endpoint)
    /\ response' = [status |-> 200, output_path |-> "data/items.jsonl"]
    /\ UNCHANGED <<ALL_DOCS, now, pickle_file, pc, documents_store, results, threads>>

-----------------------------------------------------------------------------
(* SpecAdapters: the two adapters on the answers of their sources *)

\* entries of a feed, bindings of a query result
MaxEntries == 2

NoTime == [kind |-> "absent", day |-> 0]

BadTime == [kind |-> "none", day |-> 0]

TimeOf(day) == [kind |-> "time", day |-> day]

FeedEntries ==
    {Entry(<<"e", "1">>, <<"T">>, <<"l">>, <<"s">>, NoTime, Absent),
     Entry(<<"e", "2">>, <<"T">>, <<"l">>, <<"s">>, TimeOf(7), <<<<"A">>>>),
     Entry(<<"e", "u", "r", "l", "e", "x", "_", "a">>, <<"T">>, <<"l">>, <<"s">>, NoTime, Absent),
     Entry(<< >>, <<"T">>, <<"l">>, <<"s">>, NoTime, Absent),
     Entry(<<"e", "3">>, <<"T">>, <<"l">>, Absent, NoTime, Absent),
     Entry(Absent, <<"T">>, Absent, <<"s">>, NoTime, Absent),
     Entry(<<"e", "4">>, <<"T">>, <<"l">>, <<"s">>, BadTime, Absent)}

Feeds ==
    {[raises |-> TRUE, bozo |-> FALSE, entries |-> << >>],
     [raises |-> FALSE, bozo |-> TRUE, entries |-> << >>]}
    \cup {[raises |-> FALSE, bozo |-> FALSE, entries |-> e] :
             e \in SeqsUpTo(FeedEntries, MaxEntries)}

Bindings ==
    {Binding(Cell(<<"w", "/", "a">>), Cell(<<"T">>), Cell(<<"0", "7">>), Cell(<<"u">>)),
     Binding(Cell(<<"w", "/", "b">>), NoCell, NoCell, NoCell),
     Binding(Cell(<<"w", "/">>), Cell(<<"T">>), Cell(Absent), NoCell),
     Binding(NoCell, BadCell, NoCell, NoCell),
     Binding(Cell(<< >>), Cell(<<"T">>), NoCell, NoCell),
     Binding(Cell(<<"w", "/", "c">>), BadCell, Cell(<<"0", "7">>), Cell(<<"u">>)),
     Binding(BadCell, Cell(<<"T">>), NoCell, NoCell)}

Endpoints ==
    {[raises |-> TRUE, bindings |-> << >>]}
    \cup {[raises |-> FALSE, bindings |-> b] : b \in SeqsUpTo(Bindings, MaxEntries)}

InitAdapters ==
    /\ pickle_file = NoFile
    /\ jsonl_file = NoFile
    /\ now = [day |-> 7, later |-> TRUE]
    /\ pc = "start"
    /\ ALL_DOCS = << >>
    /\ documents_store = << >>
    /\ request = NoRequest
    /\ response = NoResponse
    /\ results = NoResponse
    /\ threads = NoThreads

NextAdapters ==
    \/ \E feed \in Feeds : FetchEuractiv(feed)
    \/ \E endpoint \in Endpoints : FetchEurlex(endpoint)
    \/ Reply

SpecAdapters == InitAdapters /\ [][NextAdapters]_vars

-----------------------------------------------------------------------------
(* SpecReplace: runs of the ingestion script, then the start of the server *)

\* A document an earlier run left in the files
OldDoc == EurlexItem(Binding(Cell(<<"w", "/", "o", "l", "d">>), Cell(<<"T">>), Cell(<<"0", "5">>), Cell(<<"u">>)))

InitReplace ==
    /\ pickle_file \in {NoFile, Unreadable, PickleOf(<<OldDoc>>)}
    /\ jsonl_file \in {NoFile, WriteLines(NoFile, <<OldDoc>>)}
    /\ now = [day |-> 7, later |-> TRUE]
    /\ pc = "start"
    /\ ALL_DOCS = << >>
    /\ documents_store = << >>
    /\ request = NoRequest
    /\ response = NoResponse
    /\ results = NoResponse
    /\ threads = NoThreads

NextReplace ==
    \/ \E endpoint \in Endpoints : RunIngestion(endpoint)
    \/ Reply
    \/ Startup

SpecReplace == InitReplace /\ [][NextReplace]_vars

-----------------------------------------------------------------------------
(* Claims about the adapters and the replace-mode pipeline *)

\* The documents of the lines of a file, in order
LineDocs(file) == [i \in 1..Len(file.content) |-> file.content[i].doc]

\* C13: after every run_ingestion call returns, items.jsonl exists and
\* holds exactly one line per document of that run's batch, in batch
\* order, and no document of an earlier run; also when the batch is empty
\* because the adapter failed.
C13_FileHoldsLatestBatch ==
    request.op = "run_ingestion"
    => /\ jsonl_file.exists
       /\ Len(jsonl_file.content) = Len(ingest_eurlex(request.endpoint))
       /\ \A i \in 1..Len(jsonl_file.content) : jsonl_file.content[i].kind = "doc"
       /\ LineDocs(jsonl_file) = ingest_eurlex(request.endpoint)

\* A run has written a batch of two documents, and the document an
\* earlier run left in the file is gone
C13_Witness ==
    /\ request.op = "run_ingestion"
    /\ Len(jsonl_file.content) = 2
    /\ OldDoc \notin {jsonl_file.content[i].doc : i \in 1..Len(jsonl_file.content)}
    /\ pc = "start"

\* An entry that carries what the contract of the feed adapter requires:
\* id, link, title and summary, and a timestamp that, when given, parsed
WellFormedEntry(entry) ==
    /\ entry.id # Absent /\ entry.link # Absent
    /\ entry.title # Absent /\ entry.summary # Absent
    /\ entry.published_parsed.kind # "none"

\* A binding whose every bound variable is a {"value": ...} dict and whose
\* work is a non-empty URI
WellFormedBinding(result) ==
    /\ result.work.kind = "dict" /\ Truthy(CellValue(result.work))
    /\ result.title.kind # "malformed"
    /\ result.date.kind # "malformed"
    /\ result.url.kind # "malformed"

\* C16: within one adapter fetch a bad entry is skipped and every well-
\* formed entry of the same response is still returned, by ingest_euractiv
\* and by ingest_eurlex: the adapter returns no fewer documents than the
\* response held well-formed entries.
C16_BadEntryLosesNothing ==
    /\ (response # NoResponse /\ ~response.feed.raises /\ ~response.feed.bozo)
       => Len(response.docs)
              >= Cardinality({i \in 1..Len(response.feed.entries) :
                                  WellFormedEntry(response.feed.entries[i])})
    /\ (results # NoResponse /\ ~results.endpoint.raises)
       => Len(results.docs)
              >= Cardinality({i \in 1..Len(results.endpoint.bindings) :
                                  WellFormedBinding(results.endpoint.bindings[i])})

\* The ids of the documents an adapter returned
IdsOf(docs) == {docs[i].id : i \in 1..Len(docs)}

\* C18: every document an adapter produces has a non-empty id, and two
\* documents produced by different adapters never have the same id.
C18_IdsDisjointAcrossSources ==
    /\ response # NoResponse => << >> \notin IdsOf(response.docs)
    /\ results # NoResponse => << >> \notin IdsOf(results.docs)
    /\ (response # NoResponse /\ results # NoResponse)
       => IdsOf(response.docs) \cap IdsOf(results.docs) = {}

\* C20: after run_ingestion has persisted a non-empty batch to items.jsonl,
\* the next process start serves exactly that batch, whatever snapshot
\* file is present.
C20_StartServesLatestBatch ==
    (/\ pc = "serving"
     /\ request.op = "run_ingestion"
     /\ ingest_eurlex(request.endpoint) # << >>)
    => ALL_DOCS = ingest_eurlex(request.endpoint)

-----------------------------------------------------------------------------
(* get_topics, get_sources, health_check *)

\* all_topics: the set of the topics of all documents
AllTopics(store) == UNION {{store[i].topics[j] : j \in 1..Len(store[i].topics)} : i \in 1..Len(store)}

\* topic_counts: for each topic the number of documents that carry it
TopicCounts(store) ==
    {[name |-> t,
      count |-> Cardinality({i \in 1..Len(store) :
                                \E j \in 1..Len(store[i].topics) : store[i].topics[j] = t})] :
        t \in AllTopics(store)}

\* The counts that occur, and the k-th largest of them
CountsOf(counted) == {r.count : r \in counted}

KthLargest(counts, k) == CHOOSE c \in counts : Cardinality({b \in counts : b > c}) = k - 1

\* sorted(topic_counts.items(), key=count, reverse=True): the topics come
\* in the iteration order of a set, which the stable sort keeps among equal
\* counts.  The answer is modelled as the sequence of its runs of equal
\* count, in descending order of count, each run as the set of its topics.
get_topics(store) ==
    LET counted == TopicCounts(store)
        counts == CountsOf(counted)
    IN  [status |-> 200,
         topics |-> [k \in 1..Cardinality(counts) |->
                        {r \in counted : r.count = KthLargest(counts, k)}]]

\* get_sources: counts per doc.get('source', 'Unknown') in discovery order
get_sources(store) == [status |-> 200, sources |-> GroupBy(store, "source", Len(store))]

\* health_check
health_check(store, clock) ==
    [status |-> 200, documents |-> Len(store), timestamp |-> clock, version |-> "1.0.0"]

-----------------------------------------------------------------------------
(* The serving handlers of main_simple_backup.py: the text of main.py's,   *)
(* over documents_store                                                    *)

GetDocumentsBackup_sorting_store(topic, source, doc_type, days, search, limit) ==
    /\ pc = "serving" /\ request = NoRequest
    /\ request' = Criteria(topic, source, doc_type, days, search, limit)
    /\ response' = get_documents(documents_store, now, topic, source, doc_type, days,
                                 search, limit)
    /\ documents_store' = IF SortRaises(documents_store) THEN documents_store
                          ELSE SortDocs(documents_store)
    /\ UNCHANGED <<ALL_DOCS, now, pickle_file, jsonl_file, pc, results, threads>>

\* GET /api/documents: docs = documents_store.copy(), then as in main.py
GetDocumentsBackup(topic, source, doc_type, days, search, limit) ==
    /\ pc = "serving" /\ request = NoRequest
    /\ request' = Criteria(topic, source, doc_type, days, search, limit)
    /\ response' = get_documents(documents_store, now, topic, source, doc_type, days,
                                 search, limit)
    /\ UNCHANGED <<ALL_DOCS, now, pickle_file, jsonl_file, pc,
                   documents_store, results, threads>>

\* GET /api/stats
GetStatsBackup ==
    /\ pc = "serving" /\ request = NoRequest
    /\ request' = [op |-> "get_stats"]
    /\ response' = get_stats(documents_store, now)
    /\ UNCHANGED <<ALL_DOCS, now, pickle_file, jsonl_file, pc,
                   documents_store, results, threads>>

\* GET /api/topics
GetTopicsBackup ==
    /\ pc = "serving" /\ request = NoRequest
    /\ request' = [op |-> "get_topics"]
    /\ response' = get_topics(documents_store)
    /\ UNCHANGED <<ALL_DOCS, now, pickle_file, jsonl_file, pc,
                   documents_store, results, threads>>

\* GET /api/sources
GetSourcesBackup ==
    /\ pc = "serving" /\ request = NoRequest
    /\ request' = [op |-> "get_sources"]
    /\ response' = get_sources(documents_store)
    /\ UNCHANGED <<ALL_DOCS, now, pickle_file, jsonl_file, pc,
                   documents_store, results, threads>>

\* POST /api/rag/query
RagQueryBackup(query_data) ==
    /\ pc = "serving" /\ request = NoRequest
    /\ request' = [op |-> "rag_query", query_data |-> query_data]
    /\ response' = rag_query(documents_store, query_data)
    /\ UNCHANGED <<ALL_DOCS, now, pickle_file, jsonl_file, pc,
                   documents_store, results, threads>>

\* GET /api/health
HealthCheckBackup ==
    /\ pc = "serving" /\ request = NoRequest
    /\ request' = [op |-> "health_check"]
    /\ response' = health_check(documents_store, now)
    /\ UNCHANGED <<ALL_DOCS, now, pickle_file, jsonl_file, pc,
                   documents_store, results, threads>>

-----------------------------------------------------------------------------
(* SpecServe: the backup server under serving requests and ingestion runs *)

ServeSources == {Null, <<Src_ep>>, <<Src_rss, Src_euractiv>>}

ServeLimits == {SomeInt(1), SomeInt(3)}

ServeQueries == {[query |-> q] : q \in {Absent, <<"h", "y", "d", "r", "o", "g", "e", "n", " ", "a">>, <<"b">>}}

NextServe ==
    \/ StartupBackup
    \/ Reply
    \/ \E topic \in IngestTopics, sources \in ServeSources, limit \in ServeLimits :
          IngestData(topic, 30, sources, limit)
    \/ \E topic \in {Null, <<"a">>}, source \in {Null, Str_EURACTIV},
          days \in {NoneInt, SomeInt(3)}, limit \in {NoneInt, SomeInt(1)} :
            GetDocumentsBackup(topic, source, Null, days, Null, limit)
    \/ GetStatsBackup
    \/ GetTopicsBackup
    \/ GetSourcesBackup
    \/ \E query_data \in ServeQueries : RagQueryBackup(query_data)
    \/ HealthCheckBackup

SpecServe == InitIngest /\ [][NextServe]_vars

-----------------------------------------------------------------------------
(* Claims about the serving path, checked under SpecServe *)

\* The requests the serving handlers answer
ServingOps ==
    {"get_documents", "get_stats", "get_topics", "get_sources", "rag_query",
     "health_check"}

\* C15: no serving request (get_documents, get_stats, get_topics,
\* get_sources, rag_query, health_check), in any sequence and with any
\* arguments, changes the document store: its documents and their order
\* are the same before and after; once the server runs only an ingestion
\* run writes the store.
C15_ServingLeavesStore ==
    [][/\ (request = NoRequest /\ request'.op \in ServingOps)
          => documents_store' = documents_store
       /\ (pc = "serving" /\ documents_store' # documents_store)
          => (request = NoRequest /\ request'.op = "ingest")]_vars

\* get_documents has answered, after an ingestion run, with all the
\* documents of the store in another order than the store's
C15_Witness ==
    /\ request.op = "get_documents"
    /\ response.status = 200
    /\ Len(documents_store) > Len(create_sample_documents_backup)
    /\ Len(response.documents) = Len(documents_store)
    /\ response.documents # documents_store

-----------------------------------------------------------------------------
(* Overlapping requests.  The handlers are plain def functions, which the  *)
(* framework runs in the threads of a pool, so two requests can be inside  *)
(* their handlers together and the interpreter switches between them       *)
(* between bytecodes.  A frame holds the locals of one handler and the     *)
(* place it has reached; the steps are cut where a handler reads or writes *)
(* documents_store.                                                        *)

Idle == [op |-> "idle"]

\* The worker threads
NumThreads == 2

Threads == 1..NumThreads

\* ingest_documents up to the store: the loop over the sources fills
\* all_documents and touches no shared state
IngestBegin(t, topic, sources, limit) ==
    /\ pc = "serving" /\ threads[t] = Idle
    /\ threads' = [threads EXCEPT ![t] =
           [op |-> "ingest", at |-> "fetched", topic |-> topic,
            sources |-> SourcesOrDefault(sources), limit |-> limit,
            all_documents |-> CollectAll(topic, now, SourcesOrDefault(sources), limit,
                                         Len(SourcesOrDefault(sources))),
            new_documents |-> << >>, status |-> 0]]
    /\ UNCHANGED <<ALL_DOCS, now, request, response, pickle_file, jsonl_file, pc,
                   documents_store, results>>

\* existing_ids = {doc["id"] for doc in documents_store}, then
\* new_documents = [doc for doc in all_documents if doc["id"] not in existing_ids]
IngestReadIds(t) ==
    /\ threads[t].op = "ingest" /\ threads[t].at = "fetched"
    /\ threads' = [threads EXCEPT ![t] =
           IF IngestRaises(documents_store)
           THEN [@ EXCEPT !.at = "done", !.status = 500]
           ELSE [@ EXCEPT !.at = "filtered",
                          !.new_documents =
                              NewDocuments(documents_store, threads[t].all_documents)]]
    /\ UNCHANGED <<ALL_DOCS, now, request, response, pickle_file, jsonl_file, pc,
                   documents_store, results>>

\* documents_store.extend(new_documents): one call, not interrupted
IngestExtend(t) ==
    /\ threads[t].op = "ingest" /\ threads[t].at = "filtered"
    /\ Len(Merged(documents_store, threads[t].new_documents)) <= MaxStore
    /\ documents_store' = Merged(documents_store, threads[t].new_documents)
    /\ threads' = [threads EXCEPT ![t] = [@ EXCEPT !.at = "done", !.status = 200]]
    /\ UNCHANGED <<ALL_DOCS, now, request, response, pickle_file, jsonl_file, pc,
                   results>>

\* get_stats up to its loop: total = len(documents_store)
StatsBegin(t) ==
    /\ pc = "serving" /\ threads[t] = Idle
    /\ threads' = [threads EXCEPT ![t] =
           [op |-> "get_stats", at |-> "counting", total |-> Len(documents_store),
            i |-> 0, by_source |-> << >>, by_type |-> << >>,
            active_procedures |-> 0, this_week |-> 0, status |-> 0]]
    /\ UNCHANGED <<ALL_DOCS, now, request, response, pickle_file, jsonl_file, pc,
                   documents_store, results>>

\* for doc in documents_store: the list iterator hands out the element at
\* its index as long as the index is below the length the list has then
StatsStep(t) ==
    /\ threads[t].op = "get_stats" /\ threads[t].at = "counting"
    /\ threads' = [threads EXCEPT ![t] =
           IF @.i < Len(documents_store)
           THEN LET doc == documents_store[@.i + 1]
                    doc_type == GetDefault(doc, "doc_type", Str_Unknown)
                IN  [@ EXCEPT !.i = @ + 1,
                              !.by_source = CountInto(@, GetDefault(doc, "source", Str_Unknown)),
                              !.by_type = CountInto(@, doc_type),
                              !.active_procedures =
                                  IF doc_type = Str_procedure THEN @ + 1 ELSE @,
                              !.this_week = IF InThisWeek(doc, now) THEN @ + 1 ELSE @]
           ELSE [@ EXCEPT !.at = "done", !.status = 200]]
    /\ UNCHANGED <<ALL_DOCS, now, request, response, pickle_file, jsonl_file, pc,
                   documents_store, results>>

\* The handler returns and its thread goes back to the pool
Return(t) ==
    /\ threads[t] # Idle /\ threads[t].at = "done"
    /\ threads' = [threads EXCEPT ![t] = Idle]
    /\ UNCHANGED <<ALL_DOCS, now, request, response, pickle_file, jsonl_file, pc,
                   documents_store, results>>

-----------------------------------------------------------------------------
(* SpecConcurrent: two worker threads of the backup server *)

\* Each request names one source once, so that a run on its own adds no
\* id twice
ConcurrentSources == {<<Src_ep>>, <<Src_euractiv>>}

ConcurrentLimits == {SomeInt(1), SomeInt(2)}

ConcurrentTopics == {<<"a", " ", "b">>}

InitConcurrent ==
    /\ pickle_file \in {PickleOf(<< >>),
                        PickleOf(<<EpDoc(<<"a">>, [day |-> 20, later |-> FALSE], 0)>>)}
    /\ jsonl_file = NoFile
    /\ now = [day |-> 30, later |-> TRUE]
    /\ pc = "start"
    /\ ALL_DOCS = << >>
    /\ documents_store = << >>
    /\ request = NoRequest
    /\ response = NoResponse
    /\ results = NoResponse
    /\ threads = [t \in Threads |-> Idle]

NextConcurrent ==
    \/ StartupBackup
    \/ \E t \in Threads :
          \/ \E topic \in ConcurrentTopics, sources \in ConcurrentSources,
                limit \in ConcurrentLimits : IngestBegin(t, topic, sources, limit)
          \/ IngestReadIds(t)
          \/ IngestExtend(t)
          \/ StatsBegin(t)
          \/ StatsStep(t)
          \/ Return(t)

SpecConcurrent == InitConcurrent /\ [][NextConcurrent]_vars

-----------------------------------------------------------------------------
(* Claims about overlapping requests, checked under SpecConcurrent *)

\* C17: a serving request that runs concurrently with a merge ingestion
\* computes every value of its response from one version of the store;
\* for get_stats, total_documents equals the sum of the per-source counts
\* (and of the per-type counts).
C17_StatsFromOneVersion ==
    \A t \in Threads :
        (threads[t].op = "get_stats" /\ threads[t].at = "done")
        => /\ threads[t].total = SumCounts(threads[t].by_source, Len(threads[t].by_source))
           /\ threads[t].total = SumCounts(threads[t].by_type, Len(threads[t].by_type))

\* C19: two ingest requests whose ingest_documents executions interleave
\* never leave two documents with the same id in documents_store.
C19_NoDuplicateIdsInterleaved ==
    Cardinality(ExistingIds(documents_store)) = Len(documents_store)

-----------------------------------------------------------------------------
(* SpecRepeat: an ingest request, then the same request once more *)

\* the clock stops at this day
MaxDay == 31

\* POST /api/ingest with the body of the request just answered, sent again
\* before any other request; a day may have passed in between
IngestDataAgain(later) ==
    /\ pc = "serving" /\ request.op = "ingest"
    /\ later => now.day < MaxDay
    /\ now' = IF later THEN [now EXCEPT !.day = @ + 1] ELSE now
    /\ LET run == ingest_documents(documents_store, now', request.topic, request.days,
                                   request.sources, request.limit)
       IN  /\ Len(run.store) <= MaxStore
           /\ documents_store' = run.store
           /\ results' = run.results
           /\ request' = [request EXCEPT !.op = "ingest_again"]
           /\ response' = IF run.raised
                          THEN [status |-> 500]
                          ELSE [status |-> 200, total_documents_now |-> Len(run.store)]
    /\ UNCHANGED <<ALL_DOCS, pickle_file, jsonl_file, pc, threads>>

RepeatSources == {Null, <<Src_ep>>, <<Src_ep, Src_ep>>, <<Src_rss, Src_euractiv>>}

RepeatLimits == {NoneInt, SomeInt(1), SomeInt(3)}

NextRepeat ==
    \/ StartupBackup
    \/ Reply
    \/ \E topic \in IngestTopics, sources \in RepeatSources, limit \in RepeatLimits :
          IngestData(topic, 30, sources, limit)
    \/ \E later \in BOOLEAN : IngestDataAgain(later)

SpecRepeat == InitIngest /\ [][NextRepeat]_vars

\* C21: merge ingestion is idempotent: ingest_documents run a second time
\* with the same topic, sources and limit directly after a first run
\* reports total_new_documents = 0 and leaves documents_store with the
\* same documents in the same order.
C21_SecondRunAddsNothing ==
    [][(request.op = "ingest" /\ request'.op = "ingest_again"
        /\ ~IngestRaises(documents_store))
       => /\ response'.status = 200
          /\ results'.total_new_documents = 0
          /\ documents_store' = documents_store]_vars

\* A second run, a day after the first, that fetched a document from a
\* source and reported none as new
C21_Witness ==
    /\ request.op = "ingest_again"
    /\ now.day = MaxDay
    /\ response.status = 200
    /\ Src_ep \in DOMAIN results.ingested_by_source
    /\ results.ingested_by_source[Src_ep] > 0
    /\ results.total_new_documents = 0

=============================================================================
